---- MODULE Spec2Model ----
(***************************************************************************)
(* pscheduler/jsonval.py: json_validate(json, skeleton) and the type       *)
(* dictionary it validates against.                                        *)
(*                                                                         *)
(* Python values are tagged records [k |-> kind, v |-> payload]:           *)
(*   "str"   a Python string (an atom; Chars lists its characters)         *)
(*   "int"   a Python int                                                  *)
(*   "float" a Python float, payload in hundredths (314 is 3.14)           *)
(*   "bool", "null", "list" (payload a sequence), "dict" (payload a        *)
(*   function from key strings to values).                                 *)
(* Text produced at run time (messages) is a sequence of characters.       *)
(***************************************************************************)
EXTENDS Integers, Sequences, FiniteSets, TLC

VARIABLES hashOrder, heap, pc, json, skeleton, schema, element, ex, outcome

vars == <<hashOrder, heap, pc, json, skeleton, schema, element, ex, outcome>>

\* Number of json_validate calls that may be in progress at once.
NCalls == 2

Calls == 1..NCalls

-----------------------------------------------------------------------------
\* Python values

Str(s) == [k |-> "str", v |-> s]
Integer(n) == [k |-> "int", v |-> n]
Float(h) == [k |-> "float", v |-> h]
Bool(b) == [k |-> "bool", v |-> b]
None == [k |-> "null", v |-> 0]
List(s) == [k |-> "list", v |-> s]
Dict(f) == [k |-> "dict", v |-> f]
EmptyDict == Dict([x \in {} |-> None])

\* key in d, d[key], d with d[key] = val
HasKey(d, key) == key \in DOMAIN d.v
Get(d, key) == d.v[key]
SetItem(d, key, val) == Dict([x \in DOMAIN d.v \cup {key} |-> IF x = key THEN val ELSE d.v[x]])

\* The characters of the strings the model handles (TLC's strings are atoms).
Chars(s) ==
    CASE s = " " -> <<" ">>
      [] s = " does not match " -> <<" ", "d", "o", "e", "s", " ", "n", "o", "t", " ", "m", "a", "t", "c", "h", " ">>
      [] s = " is a required property" -> <<" ", "i", "s", " ", "a", " ", "r", "e", "q", "u", "i", "r", "e", "d", " ", "p", "r", "o", "p", "e", "r", "t", "y">>
      [] s = " is greater than the maximum of " -> <<" ", "i", "s", " ", "g", "r", "e", "a", "t", "e", "r", " ", "t", "h", "a", "n", " ", "t", "h", "e", " ", "m", "a", "x", "i", "m", "u", "m", " ", "o", "f", " ">>
      [] s = " is less than the minimum of " -> <<" ", "i", "s", " ", "l", "e", "s", "s", " ", "t", "h", "a", "n", " ", "t", "h", "e", " ", "m", "i", "n", "i", "m", "u", "m", " ", "o", "f", " ">>
      [] s = " is not a " -> <<" ", "i", "s", " ", "n", "o", "t", " ", "a", " ">>
      [] s = " is not of type " -> <<" ", "i", "s", " ", "n", "o", "t", " ", "o", "f", " ", "t", "y", "p", "e", " ">>
      [] s = " is not one of " -> <<" ", "i", "s", " ", "n", "o", "t", " ", "o", "n", "e", " ", "o", "f", " ">>
      [] s = " is not valid under any of the given schemas" -> <<" ", "i", "s", " ", "n", "o", "t", " ", "v", "a", "l", "i", "d", " ", "u", "n", "d", "e", "r", " ", "a", "n", "y", " ", "o", "f", " ", "t", "h", "e", " ", "g", "i", "v", "e", "n", " ", "s", "c", "h", "e", "m", "a", "s">>
      [] s = " is valid under each of " -> <<" ", "i", "s", " ", "v", "a", "l", "i", "d", " ", "u", "n", "d", "e", "r", " ", "e", "a", "c", "h", " ", "o", "f", " ">>
      [] s = " unexpected)" -> <<" ", "u", "n", "e", "x", "p", "e", "c", "t", "e", "d", ")">>
      [] s = " was" -> <<" ", "w", "a", "s">>
      [] s = " were" -> <<" ", "w", "e", "r", "e">>
      [] s = "#/local/missing" -> <<"#", "/", "l", "o", "c", "a", "l", "/", "m", "i", "s", "s", "i", "n", "g">>
      [] s = "#/local/protocol" -> <<"#", "/", "l", "o", "c", "a", "l", "/", "p", "r", "o", "t", "o", "c", "o", "l">>
      [] s = "#/local/twice" -> <<"#", "/", "l", "o", "c", "a", "l", "/", "t", "w", "i", "c", "e">>
      [] s = "#/pScheduler/AnyJSON" -> <<"#", "/", "p", "S", "c", "h", "e", "d", "u", "l", "e", "r", "/", "A", "n", "y", "J", "S", "O", "N">>
      [] s = "#/pScheduler/Cardinal" -> <<"#", "/", "p", "S", "c", "h", "e", "d", "u", "l", "e", "r", "/", "C", "a", "r", "d", "i", "n", "a", "l">>
      [] s = "#/pScheduler/CardinalRange" -> <<"#", "/", "p", "S", "c", "h", "e", "d", "u", "l", "e", "r", "/", "C", "a", "r", "d", "i", "n", "a", "l", "R", "a", "n", "g", "e">>
      [] s = "#/pScheduler/CardinalZero" -> <<"#", "/", "p", "S", "c", "h", "e", "d", "u", "l", "e", "r", "/", "C", "a", "r", "d", "i", "n", "a", "l", "Z", "e", "r", "o">>
      [] s = "#/pScheduler/CardinalZeroRange" -> <<"#", "/", "p", "S", "c", "h", "e", "d", "u", "l", "e", "r", "/", "C", "a", "r", "d", "i", "n", "a", "l", "Z", "e", "r", "o", "R", "a", "n", "g", "e">>
      [] s = "#/pScheduler/Duration" -> <<"#", "/", "p", "S", "c", "h", "e", "d", "u", "l", "e", "r", "/", "D", "u", "r", "a", "t", "i", "o", "n">>
      [] s = "#/pScheduler/DurationRange" -> <<"#", "/", "p", "S", "c", "h", "e", "d", "u", "l", "e", "r", "/", "D", "u", "r", "a", "t", "i", "o", "n", "R", "a", "n", "g", "e">>
      [] s = "#/pScheduler/Email" -> <<"#", "/", "p", "S", "c", "h", "e", "d", "u", "l", "e", "r", "/", "E", "m", "a", "i", "l">>
      [] s = "#/pScheduler/IPPort" -> <<"#", "/", "p", "S", "c", "h", "e", "d", "u", "l", "e", "r", "/", "I", "P", "P", "o", "r", "t">>
      [] s = "#/pScheduler/IPPortRange" -> <<"#", "/", "p", "S", "c", "h", "e", "d", "u", "l", "e", "r", "/", "I", "P", "P", "o", "r", "t", "R", "a", "n", "g", "e">>
      [] s = "#/pScheduler/NoSuchType" -> <<"#", "/", "p", "S", "c", "h", "e", "d", "u", "l", "e", "r", "/", "N", "o", "S", "u", "c", "h", "T", "y", "p", "e">>
      [] s = "#/pScheduler/Number" -> <<"#", "/", "p", "S", "c", "h", "e", "d", "u", "l", "e", "r", "/", "N", "u", "m", "b", "e", "r">>
      [] s = "#/pScheduler/Numeric" -> <<"#", "/", "p", "S", "c", "h", "e", "d", "u", "l", "e", "r", "/", "N", "u", "m", "e", "r", "i", "c">>
      [] s = "#/pScheduler/NumericRange" -> <<"#", "/", "p", "S", "c", "h", "e", "d", "u", "l", "e", "r", "/", "N", "u", "m", "e", "r", "i", "c", "R", "a", "n", "g", "e">>
      [] s = "#/pScheduler/Probability" -> <<"#", "/", "p", "S", "c", "h", "e", "d", "u", "l", "e", "r", "/", "P", "r", "o", "b", "a", "b", "i", "l", "i", "t", "y">>
      [] s = "#/pScheduler/ProbabilityRange" -> <<"#", "/", "p", "S", "c", "h", "e", "d", "u", "l", "e", "r", "/", "P", "r", "o", "b", "a", "b", "i", "l", "i", "t", "y", "R", "a", "n", "g", "e">>
      [] s = "#/pScheduler/SINumber" -> <<"#", "/", "p", "S", "c", "h", "e", "d", "u", "l", "e", "r", "/", "S", "I", "N", "u", "m", "b", "e", "r">>
      [] s = "#/pScheduler/SINumberRange" -> <<"#", "/", "p", "S", "c", "h", "e", "d", "u", "l", "e", "r", "/", "S", "I", "N", "u", "m", "b", "e", "r", "R", "a", "n", "g", "e">>
      [] s = "$ref" -> <<"$", "r", "e", "f">>
      [] s = "$schema" -> <<"$", "s", "c", "h", "e", "m", "a">>
      [] s = "%s" -> <<"%", "s">>
      [] s = "%s: bad magnitude %s" -> <<"%", "s", ":", " ", "b", "a", "d", " ", "m", "a", "g", "n", "i", "t", "u", "d", "e", " ", "%", "s">>
      [] s = "'" -> <<"'">>
      [] s = "'%s' is not a valid ISO 8601 duration." -> <<"'", "%", "s", "'", " ", "i", "s", " ", "n", "o", "t", " ", "a", " ", "v", "a", "l", "i", "d", " ", "I", "S", "O", " ", "8", "6", "0", "1", " ", "d", "u", "r", "a", "t", "i", "o", "n", ".">>
      [] s = ", " -> <<",", " ">>
      [] s = "-" -> <<"-">>
      [] s = "." -> <<".">>
      [] s = "/" -> <<"/">>
      [] s = "0" -> <<"0">>
      [] s = "1" -> <<"1">>
      [] s = "10 Mi" -> <<"1", "0", " ", "M", "i">>
      [] s = "10M" -> <<"1", "0", "M">>
      [] s = "2" -> <<"2">>
      [] s = "3" -> <<"3">>
      [] s = "4" -> <<"4">>
      [] s = "5" -> <<"5">>
      [] s = "5Gi" -> <<"5", "G", "i">>
      [] s = "6" -> <<"6">>
      [] s = "7" -> <<"7">>
      [] s = "8" -> <<"8">>
      [] s = "9" -> <<"9">>
      [] s = ":" -> <<":">>
      [] s = ": " -> <<":", " ">>
      [] s = "@" -> <<"@">>
      [] s = "A" -> <<"A">>
      [] s = "Additional properties are not allowed (" -> <<"A", "d", "d", "i", "t", "i", "o", "n", "a", "l", " ", "p", "r", "o", "p", "e", "r", "t", "i", "e", "s", " ", "a", "r", "e", " ", "n", "o", "t", " ", "a", "l", "l", "o", "w", "e", "d", " ", "(">>
      [] s = "AnyJSON" -> <<"A", "n", "y", "J", "S", "O", "N">>
      [] s = "At " -> <<"A", "t", " ">>
      [] s = "At /" -> <<"A", "t", " ", "/">>
      [] s = "Cardinal" -> <<"C", "a", "r", "d", "i", "n", "a", "l">>
      [] s = "CardinalRange" -> <<"C", "a", "r", "d", "i", "n", "a", "l", "R", "a", "n", "g", "e">>
      [] s = "CardinalZero" -> <<"C", "a", "r", "d", "i", "n", "a", "l", "Z", "e", "r", "o">>
      [] s = "CardinalZeroRange" -> <<"C", "a", "r", "d", "i", "n", "a", "l", "Z", "e", "r", "o", "R", "a", "n", "g", "e">>
      [] s = "D" -> <<"D">>
      [] s = "Duration" -> <<"D", "u", "r", "a", "t", "i", "o", "n">>
      [] s = "DurationRange" -> <<"D", "u", "r", "a", "t", "i", "o", "n", "R", "a", "n", "g", "e">>
      [] s = "E" -> <<"E">>
      [] s = "Email" -> <<"E", "m", "a", "i", "l">>
      [] s = "False" -> <<"F", "a", "l", "s", "e">>
      [] s = "G" -> <<"G">>
      [] s = "H" -> <<"H">>
      [] s = "I" -> <<"I">>
      [] s = "IPPort" -> <<"I", "P", "P", "o", "r", "t">>
      [] s = "IPPortRange" -> <<"I", "P", "P", "o", "r", "t", "R", "a", "n", "g", "e">>
      [] s = "K" -> <<"K">>
      [] s = "M" -> <<"M">>
      [] s = "None" -> <<"N", "o", "n", "e">>
      [] s = "Number" -> <<"N", "u", "m", "b", "e", "r">>
      [] s = "Numeric" -> <<"N", "u", "m", "e", "r", "i", "c">>
      [] s = "NumericRange" -> <<"N", "u", "m", "e", "r", "i", "c", "R", "a", "n", "g", "e">>
      [] s = "OK" -> <<"O", "K">>
      [] s = "P" -> <<"P">>
      [] s = "P1DT12H" -> <<"P", "1", "D", "T", "1", "2", "H">>
      [] s = "PT10M" -> <<"P", "T", "1", "0", "M">>
      [] s = "PT10Mxx" -> <<"P", "T", "1", "0", "M", "x", "x">>
      [] s = "PT1M" -> <<"P", "T", "1", "M">>
      [] s = "PT2M" -> <<"P", "T", "2", "M">>
      [] s = "Probability" -> <<"P", "r", "o", "b", "a", "b", "i", "l", "i", "t", "y">>
      [] s = "ProbabilityRange" -> <<"P", "r", "o", "b", "a", "b", "i", "l", "i", "t", "y", "R", "a", "n", "g", "e">>
      [] s = "RefResolutionError" -> <<"R", "e", "f", "R", "e", "s", "o", "l", "u", "t", "i", "o", "n", "E", "r", "r", "o", "r">>
      [] s = "S" -> <<"S">>
      [] s = "SINumber" -> <<"S", "I", "N", "u", "m", "b", "e", "r">>
      [] s = "SINumberRange" -> <<"S", "I", "N", "u", "m", "b", "e", "r", "R", "a", "n", "g", "e">>
      [] s = "SchemaError" -> <<"S", "c", "h", "e", "m", "a", "E", "r", "r", "o", "r">>
      [] s = "T" -> <<"T">>
      [] s = "True" -> <<"T", "r", "u", "e">>
      [] s = "TypeError" -> <<"T", "y", "p", "e", "E", "r", "r", "o", "r">>
      [] s = "ValidationError" -> <<"V", "a", "l", "i", "d", "a", "t", "i", "o", "n", "E", "r", "r", "o", "r">>
      [] s = "ValueError" -> <<"V", "a", "l", "u", "e", "E", "r", "r", "o", "r">>
      [] s = "W" -> <<"W">>
      [] s = "Y" -> <<"Y">>
      [] s = "Z" -> <<"Z">>
      [] s = "[" -> <<"[">>
      [] s = "\"" -> <<"\"">>
      [] s = "\\" -> <<"\\">>
      [] s = "]" -> <<"]">>
      [] s = "^P(?:\\d+(?:\\.\\d+)?W)?(?:\\d+(?:\\.\\d+)?D)?(?:T(?:\\d+(?:\\.\\d+)?H)?(?:\\d+(?:\\.\\d+)?M)?(?:\\d+(?:\\.\\d+)?S)?)?$" -> <<"^", "P", "(", "?", ":", "\\", "d", "+", "(", "?", ":", "\\", ".", "\\", "d", "+", ")", "?", "W", ")", "?", "(", "?", ":", "\\", "d", "+", "(", "?", ":", "\\", ".", "\\", "d", "+", ")", "?", "D", ")", "?", "(", "?", ":", "T", "(", "?", ":", "\\", "d", "+", "(", "?", ":", "\\", ".", "\\", "d", "+", ")", "?", "H", ")", "?", "(", "?", ":", "\\", "d", "+", "(", "?", ":", "\\", ".", "\\", "d", "+", ")", "?", "M", ")", "?", "(", "?", ":", "\\", "d", "+", "(", "?", ":", "\\", ".", "\\", "d", "+", ")", "?", "S", ")", "?", ")", "?", "$">>
      [] s = "^[0-9]+(\\.[0-9]+)?(\\s*[KkMmGgTtPpEeZzYy][Ii]?)?$" -> <<"^", "[", "0", "-", "9", "]", "+", "(", "\\", ".", "[", "0", "-", "9", "]", "+", ")", "?", "(", "\\", "s", "*", "[", "K", "k", "M", "m", "G", "g", "T", "t", "P", "p", "E", "e", "Z", "z", "Y", "y", "]", "[", "I", "i", "]", "?", ")", "?", "$">>
      [] s = "a" -> <<"a">>
      [] s = "additionalProperties" -> <<"a", "d", "d", "i", "t", "i", "o", "n", "a", "l", "P", "r", "o", "p", "e", "r", "t", "i", "e", "s">>
      [] s = "anyOf" -> <<"a", "n", "y", "O", "f">>
      [] s = "array" -> <<"a", "r", "r", "a", "y">>
      [] s = "b" -> <<"b">>
      [] s = "bob" -> <<"b", "o", "b">>
      [] s = "bob@example.com" -> <<"b", "o", "b", "@", "e", "x", "a", "m", "p", "l", "e", ".", "c", "o", "m">>
      [] s = "bool" -> <<"b", "o", "o", "l">>
      [] s = "boolean" -> <<"b", "o", "o", "l", "e", "a", "n">>
      [] s = "check_json" -> <<"c", "h", "e", "c", "k", "_", "j", "s", "o", "n">>
      [] s = "check_schema" -> <<"c", "h", "e", "c", "k", "_", "s", "c", "h", "e", "m", "a">>
      [] s = "check_skeleton" -> <<"c", "h", "e", "c", "k", "_", "s", "k", "e", "l", "e", "t", "o", "n">>
      [] s = "copy" -> <<"c", "o", "p", "y">>
      [] s = "dict" -> <<"d", "i", "c", "t">>
      [] s = "done" -> <<"d", "o", "n", "e">>
      [] s = "e" -> <<"e">>
      [] s = "email" -> <<"e", "m", "a", "i", "l">>
      [] s = "enum" -> <<"e", "n", "u", "m">>
      [] s = "except" -> <<"e", "x", "c", "e", "p", "t">>
      [] s = "float" -> <<"f", "l", "o", "a", "t">>
      [] s = "format" -> <<"f", "o", "r", "m", "a", "t">>
      [] s = "fwd" -> <<"f", "w", "d">>
      [] s = "g" -> <<"g">>
      [] s = "howlong" -> <<"h", "o", "w", "l", "o", "n", "g">>
      [] s = "http://json-schema.org/draft-04/schema#" -> <<"h", "t", "t", "p", ":", "/", "/", "j", "s", "o", "n", "-", "s", "c", "h", "e", "m", "a", ".", "o", "r", "g", "/", "d", "r", "a", "f", "t", "-", "0", "4", "/", "s", "c", "h", "e", "m", "a", "#">>
      [] s = "http://perfsonar.net/pScheduler/json_generic.json" -> <<"h", "t", "t", "p", ":", "/", "/", "p", "e", "r", "f", "s", "o", "n", "a", "r", ".", "n", "e", "t", "/", "p", "S", "c", "h", "e", "d", "u", "l", "e", "r", "/", "j", "s", "o", "n", "_", "g", "e", "n", "e", "r", "i", "c", ".", "j", "s", "o", "n">>
      [] s = "i" -> <<"i">>
      [] s = "icmp" -> <<"i", "c", "m", "p">>
      [] s = "id" -> <<"i", "d">>
      [] s = "idle" -> <<"i", "d", "l", "e">>
      [] s = "int" -> <<"i", "n", "t">>
      [] s = "integer" -> <<"i", "n", "t", "e", "g", "e", "r">>
      [] s = "items" -> <<"i", "t", "e", "m", "s">>
      [] s = "k" -> <<"k">>
      [] s = "list" -> <<"l", "i", "s", "t">>
      [] s = "local" -> <<"l", "o", "c", "a", "l">>
      [] s = "lower" -> <<"l", "o", "w", "e", "r">>
      [] s = "m" -> <<"m">>
      [] s = "maximum" -> <<"m", "a", "x", "i", "m", "u", "m">>
      [] s = "merge" -> <<"m", "e", "r", "g", "e">>
      [] s = "minProperties" -> <<"m", "i", "n", "P", "r", "o", "p", "e", "r", "t", "i", "e", "s">>
      [] s = "minimum" -> <<"m", "i", "n", "i", "m", "u", "m">>
      [] s = "none" -> <<"n", "o", "n", "e">>
      [] s = "null" -> <<"n", "u", "l", "l">>
      [] s = "number" -> <<"n", "u", "m", "b", "e", "r">>
      [] s = "object" -> <<"o", "b", "j", "e", "c", "t">>
      [] s = "oneOf" -> <<"o", "n", "e", "O", "f">>
      [] s = "p" -> <<"p">>
      [] s = "pScheduler" -> <<"p", "S", "c", "h", "e", "d", "u", "l", "e", "r">>
      [] s = "pScheduler Generic Validation Schema" -> <<"p", "S", "c", "h", "e", "d", "u", "l", "e", "r", " ", "G", "e", "n", "e", "r", "i", "c", " ", "V", "a", "l", "i", "d", "a", "t", "i", "o", "n", " ", "S", "c", "h", "e", "m", "a">>
      [] s = "pattern" -> <<"p", "a", "t", "t", "e", "r", "n">>
      [] s = "pi" -> <<"p", "i">>
      [] s = "properties" -> <<"p", "r", "o", "p", "e", "r", "t", "i", "e", "s">>
      [] s = "protocol" -> <<"p", "r", "o", "t", "o", "c", "o", "l">>
      [] s = "r" -> <<"r">>
      [] s = "raise" -> <<"r", "a", "i", "s", "e">>
      [] s = "record" -> <<"r", "e", "c", "o", "r", "d">>
      [] s = "required" -> <<"r", "e", "q", "u", "i", "r", "e", "d">>
      [] s = "return" -> <<"r", "e", "t", "u", "r", "n">>
      [] s = "rev" -> <<"r", "e", "v">>
      [] s = "sendto" -> <<"s", "e", "n", "d", "t", "o">>
      [] s = "str" -> <<"s", "t", "r">>
      [] s = "string" -> <<"s", "t", "r", "i", "n", "g">>
      [] s = "t" -> <<"t">>
      [] s = "tcp" -> <<"t", "c", "p">>
      [] s = "title" -> <<"t", "i", "t", "l", "e">>
      [] s = "twice" -> <<"t", "w", "i", "c", "e">>
      [] s = "type" -> <<"t", "y", "p", "e">>
      [] s = "udp" -> <<"u", "d", "p">>
      [] s = "unresolvable" -> <<"u", "n", "r", "e", "s", "o", "l", "v", "a", "b", "l", "e">>
      [] s = "upper" -> <<"u", "p", "p", "e", "r">>
      [] s = "v" -> <<"v">>
      [] s = "validate" -> <<"v", "a", "l", "i", "d", "a", "t", "e">>
      [] s = "x" -> <<"x">>
      [] s = "x-factor" -> <<"x", "-", "f", "a", "c", "t", "o", "r">>
      [] s = "x-invalid-message" -> <<"x", "-", "i", "n", "v", "a", "l", "i", "d", "-", "m", "e", "s", "s", "a", "g", "e">>
      [] s = "y" -> <<"y">>
      [] s = "z" -> <<"z">>
      [] s = "{" -> <<"{">>
      [] s = "}" -> <<"}">>

\* The '/'-separated parts of the JSON pointers used as "$ref" targets.
PointerParts(s) ==
    CASE s = "#/local/missing" -> <<"local", "missing">>
      [] s = "#/local/protocol" -> <<"local", "protocol">>
      [] s = "#/local/twice" -> <<"local", "twice">>
      [] s = "#/pScheduler/AnyJSON" -> <<"pScheduler", "AnyJSON">>
      [] s = "#/pScheduler/Cardinal" -> <<"pScheduler", "Cardinal">>
      [] s = "#/pScheduler/CardinalRange" -> <<"pScheduler", "CardinalRange">>
      [] s = "#/pScheduler/CardinalZero" -> <<"pScheduler", "CardinalZero">>
      [] s = "#/pScheduler/CardinalZeroRange" -> <<"pScheduler", "CardinalZeroRange">>
      [] s = "#/pScheduler/Duration" -> <<"pScheduler", "Duration">>
      [] s = "#/pScheduler/DurationRange" -> <<"pScheduler", "DurationRange">>
      [] s = "#/pScheduler/Email" -> <<"pScheduler", "Email">>
      [] s = "#/pScheduler/IPPort" -> <<"pScheduler", "IPPort">>
      [] s = "#/pScheduler/IPPortRange" -> <<"pScheduler", "IPPortRange">>
      [] s = "#/pScheduler/NoSuchType" -> <<"pScheduler", "NoSuchType">>
      [] s = "#/pScheduler/Number" -> <<"pScheduler", "Number">>
      [] s = "#/pScheduler/Numeric" -> <<"pScheduler", "Numeric">>
      [] s = "#/pScheduler/NumericRange" -> <<"pScheduler", "NumericRange">>
      [] s = "#/pScheduler/Probability" -> <<"pScheduler", "Probability">>
      [] s = "#/pScheduler/ProbabilityRange" -> <<"pScheduler", "ProbabilityRange">>
      [] s = "#/pScheduler/SINumber" -> <<"pScheduler", "SINumber">>
      [] s = "#/pScheduler/SINumberRange" -> <<"pScheduler", "SINumberRange">>

-----------------------------------------------------------------------------
\* Python text operations, on character sequences

Digit == <<"0", "1", "2", "3", "4", "5", "6", "7", "8", "9">>

IsDigit(c) == \E d \in 1..10 : Digit[d] = c

RECURSIVE NatChars(_)
NatChars(n) == IF n < 10 THEN <<Digit[n + 1]>> ELSE NatChars(n \div 10) \o <<Digit[(n % 10) + 1]>>

\* str(n) and repr(n) of an int
IntChars(n) == IF n < 0 THEN <<"-">> \o NatChars(0 - n) ELSE NatChars(n)

\* repr of a float given in hundredths: 314 is "3.14", 50 is "0.5", 100 is "1.0"
FloatChars(h) ==
    LET a == IF h < 0 THEN 0 - h ELSE h
        frac == a % 100
        tail == IF frac % 10 = 0 THEN <<Digit[(frac \div 10) + 1]>>
                ELSE <<Digit[(frac \div 10) + 1], Digit[(frac % 10) + 1]>>
    IN (IF h < 0 THEN <<"-">> ELSE <<>>) \o NatChars(a \div 100) \o <<".">> \o tail

RECURSIVE JoinWith(_, _)
\* sep.join(parts)
JoinWith(sep, parts) ==
    IF parts = <<>> THEN <<>>
    ELSE IF Len(parts) = 1 THEN parts[1]
    ELSE parts[1] \o sep \o JoinWith(sep, Tail(parts))

\* old occurs in s at position i
OccursAt(s, old, i) == i + Len(old) - 1 <= Len(s) /\ SubSeq(s, i, i + Len(old) - 1) = old

\* s.find(old) + 1: the position of the first occurrence of old in s, or 0
Find(s, old) ==
    IF \E i \in 1..Len(s) : OccursAt(s, old, i)
    THEN CHOOSE i \in 1..Len(s) : OccursAt(s, old, i) /\ \A j \in 1..(i - 1) : ~OccursAt(s, old, j)
    ELSE 0

RECURSIVE Replace(_, _, _)
\* s.replace(old, new): every non-overlapping occurrence, left to right
Replace(s, old, new) ==
    LET i == Find(s, old)
    IN IF i = 0 THEN s
       ELSE SubSeq(s, 1, i - 1) \o new \o Replace(SubSeq(s, i + Len(old), Len(s)), old, new)

Contains(s, c) == \E i \in 1..Len(s) : s[i] = c

-----------------------------------------------------------------------------
\* The two regular expressions of the dictionary entries modelled, as
\* recognisers of a whole character sequence (both are anchored ^...$).

RECURSIVE DigitsEnd(_, _)
\* the position after the longest run of digits starting at i
DigitsEnd(s, i) == IF i <= Len(s) /\ IsDigit(s[i]) THEN DigitsEnd(s, i + 1) ELSE i

\* the position after \d+(?:\.\d+)? starting at i, or 0 when it does not match
DecimalEnd(s, i) ==
    LET j == DigitsEnd(s, i)
    IN IF j = i THEN 0
       ELSE IF j <= Len(s) /\ s[j] = "." /\ DigitsEnd(s, j + 1) > j + 1 THEN DigitsEnd(s, j + 1)
       ELSE j

\* the position after the optional group (?:\d+(?:\.\d+)?U)? starting at i
OptUnit(s, i, U) ==
    LET j == DecimalEnd(s, i)
    IN IF j > 0 /\ j <= Len(s) /\ s[j] = U THEN j + 1 ELSE i

\* ^P(?:\d+(?:\.\d+)?W)?(?:\d+(?:\.\d+)?D)?(?:T(?:\d+(?:\.\d+)?H)?(?:\d+(?:\.\d+)?M)?(?:\d+(?:\.\d+)?S)?)?$
MatchDuration(s) ==
    /\ Len(s) >= 1
    /\ s[1] = "P"
    /\ LET d == OptUnit(s, OptUnit(s, 2, "W"), "D")
           t == IF d <= Len(s) /\ s[d] = "T"
                THEN OptUnit(s, OptUnit(s, OptUnit(s, d + 1, "H"), "M"), "S")
                ELSE d
       IN t = Len(s) + 1

SIPrefix == {"K", "k", "M", "m", "G", "g", "T", "t", "P", "p", "E", "e", "Z", "z", "Y", "y"}

RECURSIVE SpacesEnd(_, _)
SpacesEnd(s, i) == IF i <= Len(s) /\ s[i] = " " THEN SpacesEnd(s, i + 1) ELSE i

\* ^[0-9]+(\.[0-9]+)?(\s*[KkMmGgTtPpEeZzYy][Ii]?)?$
MatchSINumber(s) ==
    LET j == DecimalEnd(s, 1)
        u == SpacesEnd(s, j)
        e == IF j > 0 /\ u <= Len(s) /\ s[u] \in SIPrefix
             THEN (IF u + 1 <= Len(s) /\ s[u + 1] \in {"I", "i"} THEN u + 2 ELSE u + 1)
             ELSE j
    IN j > 0 /\ e = Len(s) + 1

-----------------------------------------------------------------------------
\* __dictionary__ (the entries the skeletons below refer to)

TypeRef(name) == Dict("$ref" :> Str(name))

RangeOf(name) ==
    Dict("type" :> Str("object")
      @@ "properties" :> Dict("lower" :> TypeRef(name) @@ "upper" :> TypeRef(name))
      @@ "additionalProperties" :> Bool(FALSE)
      @@ "required" :> List(<<Str("lower"), Str("upper")>>))

AnyJSON ==
    Dict("oneOf" :> List(<<Dict("type" :> Str("array")),
                           Dict("type" :> Str("boolean")),
                           Dict("type" :> Str("integer")),
                           Dict("type" :> Str("null")),
                           Dict("type" :> Str("number")),
                           Dict("type" :> Str("object")),
                           Dict("type" :> Str("string"))>>))

Cardinal == Dict("type" :> Str("integer") @@ "minimum" :> Integer(1))

CardinalRange == RangeOf("#/pScheduler/Cardinal")

CardinalZero == Dict("type" :> Str("integer") @@ "minimum" :> Integer(0))

CardinalZeroRange == RangeOf("#/pScheduler/CardinalZero")

DurationPattern == "^P(?:\\d+(?:\\.\\d+)?W)?(?:\\d+(?:\\.\\d+)?D)?(?:T(?:\\d+(?:\\.\\d+)?H)?(?:\\d+(?:\\.\\d+)?M)?(?:\\d+(?:\\.\\d+)?S)?)?$"

Duration ==
    Dict("type" :> Str("string")
      @@ "pattern" :> Str(DurationPattern)
      @@ "x-invalid-message" :> Str("'%s' is not a valid ISO 8601 duration."))

DurationRange == RangeOf("#/pScheduler/Duration")

Email == Dict("type" :> Str("string") @@ "format" :> Str("email"))

IPPort == Dict("type" :> Str("integer") @@ "minimum" :> Integer(0) @@ "maximum" :> Integer(65535))

IPPortRange == RangeOf("#/pScheduler/IPPort")

Number == Dict("type" :> Str("number"))

SINumberPattern == "^[0-9]+(\\.[0-9]+)?(\\s*[KkMmGgTtPpEeZzYy][Ii]?)?$"

SINumber ==
    Dict("oneOf" :> List(<<Dict("type" :> Str("string") @@ "pattern" :> Str(SINumberPattern)),
                           Dict("type" :> Str("integer"))>>))

SINumberRange == RangeOf("#/pScheduler/SINumber")

Numeric == Dict("anyOf" :> List(<<TypeRef("#/pScheduler/Number"), TypeRef("#/pScheduler/SINumber")>>))

NumericRange == RangeOf("#/pScheduler/Numeric")

Probability == Dict("type" :> Str("number") @@ "minimum" :> Float(0) @@ "maximum" :> Float(100))

ProbabilityRange == RangeOf("#/pScheduler/Probability")

dictionary ==
    Dict("AnyJSON" :> AnyJSON
      @@ "Cardinal" :> Cardinal
      @@ "CardinalRange" :> CardinalRange
      @@ "CardinalZero" :> CardinalZero
      @@ "CardinalZeroRange" :> CardinalZeroRange
      @@ "Duration" :> Duration
      @@ "DurationRange" :> DurationRange
      @@ "Email" :> Email
      @@ "IPPort" :> IPPort
      @@ "IPPortRange" :> IPPortRange
      @@ "Number" :> Number
      @@ "Numeric" :> Numeric
      @@ "NumericRange" :> NumericRange
      @@ "Probability" :> Probability
      @@ "ProbabilityRange" :> ProbabilityRange
      @@ "SINumber" :> SINumber
      @@ "SINumberRange" :> SINumberRange)

default_schema ==
    Dict("$schema" :> Str("http://json-schema.org/draft-04/schema#")
      @@ "id" :> Str("http://perfsonar.net/pScheduler/json_generic.json")
      @@ "title" :> Str("pScheduler Generic Validation Schema")
      @@ "type" :> Str("object")
      @@ "additionalProperties" :> Bool(FALSE)
      @@ "pScheduler" :> dictionary)

-----------------------------------------------------------------------------
\* Iteration over a Python 2 dict visits its keys in an order the language
\* leaves to the interpreter.  hashOrder fixes it for a run: the keys are
\* visited as KeyOrder lists them, or in the reverse of that.

KeyOrder ==
    <<"additionalProperties", "items", "required", "pattern", "minimum", "format",
      "enum", "type", "maximum", "oneOf", "anyOf", "properties",
      "$ref", "$schema", "id", "title", "pScheduler", "local", "x-invalid-message",
      "a", "b", "howlong", "lower", "r", "sendto", "upper", "v", "x", "x-factor", "minProperties">>

Reverse(s) == [i \in 1..Len(s) |-> s[Len(s) + 1 - i]]

\* list(d) for a dict d
IterKeys(d) ==
    LET all == IF hashOrder = "fwd" THEN KeyOrder ELSE Reverse(KeyOrder)
        in(key) == key \in DOMAIN d.v
    IN SelectSeq(all, in)

-----------------------------------------------------------------------------
\* The jsonschema library as json_validate uses it: Draft4Validator over the
\* keywords that occur in the dictionary and in skeletons.

\* Draft4Validator.is_type
IsType(inst, t) ==
    CASE t = "array" -> inst.k = "list"
      [] t = "boolean" -> inst.k = "bool"
      [] t = "integer" -> inst.k = "int"
      [] t = "null" -> inst.k = "null"
      [] t = "number" -> inst.k \in {"int", "float"}
      [] t = "object" -> inst.k = "dict"
      [] t = "string" -> inst.k = "str"

SimpleTypes == {"array", "boolean", "integer", "null", "number", "object", "string"}

\* the value of a number in hundredths (True and False count as 1 and 0)
NumVal(x) == IF x.k = "int" THEN 100 * x.v ELSE IF x.k = "bool" THEN (IF x.v THEN 100 ELSE 0) ELSE x.v

\* a == b where at least one side is a scalar
PyEq(a, b) ==
    IF a.k \in {"int", "float", "bool"} /\ b.k \in {"int", "float", "bool"} THEN NumVal(a) = NumVal(b)
    ELSE a.k = b.k /\ (a.k = "null" \/ (a.k = "str" /\ a.v = b.v))

\* repr of a string: quoted, backslashes doubled
StrRepr(s) ==
    LET q == IF Contains(s, "'") /\ ~Contains(s, "\"") THEN "\"" ELSE "'"
    IN <<q>> \o Replace(s, <<"\\">>, <<"\\", "\\">>) \o <<q>>

RECURSIVE Repr(_)
\* repr(x)
Repr(x) ==
    CASE x.k = "str" -> StrRepr(Chars(x.v))
      [] x.k = "int" -> IntChars(x.v)
      [] x.k = "float" -> FloatChars(x.v)
      [] x.k = "bool" -> IF x.v THEN Chars("True") ELSE Chars("False")
      [] x.k = "null" -> Chars("None")
      [] x.k = "list" -> <<"[">> \o JoinWith(Chars(", "), [i \in 1..Len(x.v) |-> Repr(x.v[i])]) \o <<"]">>
      [] x.k = "dict" ->
            LET keys == IterKeys(x)
            IN <<"{">> \o JoinWith(Chars(", "),
                     [i \in 1..Len(keys) |-> StrRepr(Chars(keys[i])) \o Chars(": ") \o Repr(x.v[keys[i]])])
               \o <<"}">>

\* What iterating the validator yields: ValidationErrors, or the
\* RefResolutionError that ends the iteration by being raised.
ValidationError(msg, inst, sch, path) ==
    [kind |-> "ValidationError", message |-> msg, instance |-> inst, schema |-> sch, absolute_path |-> path]

RefResolutionError ==
    [kind |-> "RefResolutionError", message |-> <<>>, instance |-> None, schema |-> None, absolute_path |-> <<>>]

Raises(events) == \E i \in 1..Len(events) : events[i].kind = "RefResolutionError"

RECURSIVE Flatten(_)
Flatten(ss) == IF Len(ss) = 0 THEN <<>> ELSE Head(ss) \o Flatten(Tail(ss))

\* FormatChecker().check for the formats of the entries modelled
ConformsTo(inst, fmt) ==
    CASE fmt = "email" -> inst.k # "str" \/ Contains(Chars(inst.v), "@")

\* re.search(patrn, instance)
re_search(patrn, inst) ==
    CASE patrn = DurationPattern -> MatchDuration(Chars(inst.v))
      [] patrn = SINumberPattern -> MatchSINumber(Chars(inst.v))

RECURSIVE resolve_fragment(_, _)
\* RefResolver.resolve_fragment: the document walked along the pointer's
\* parts, or "unresolvable"
resolve_fragment(document, parts) ==
    IF Len(parts) = 0 THEN document
    ELSE IF document.k = "dict" /\ HasKey(document, Head(parts))
         THEN resolve_fragment(Get(document, Head(parts)), Tail(parts))
         ELSE [k |-> "unresolvable", v |-> 0]

Unresolvable(x) == x.k = "unresolvable"

RECURSIVE iter_errors(_, _, _, _)
RECURSIVE FirstValid(_, _, _, _, _)

\* the first index from i on of a subschema the instance is valid under (0: none)
FirstValid(inst, subs, root, path, i) ==
    IF i > Len(subs) THEN 0
    ELSE IF Len(iter_errors(inst, subs[i], root, path)) = 0 THEN i
    ELSE FirstValid(inst, subs, root, path, i + 1)

\* _validators.ref
v_ref(ref, inst, root, path) ==
    LET resolved == resolve_fragment(root, PointerParts(ref.v))
    IN IF Unresolvable(resolved) THEN <<RefResolutionError>>
       ELSE iter_errors(inst, resolved, root, path)

\* _validators.type_draft4
v_type(types, inst, sch, path) ==
    LET ts == IF types.k = "list" THEN [i \in 1..Len(types.v) |-> types.v[i].v] ELSE <<types.v>>
    IN IF \E i \in 1..Len(ts) : IsType(inst, ts[i]) THEN <<>>
       ELSE <<ValidationError(Repr(inst) \o Chars(" is not of type ")
                                \o JoinWith(Chars(", "), [i \in 1..Len(ts) |-> StrRepr(Chars(ts[i]))]),
                              inst, sch, path)>>

\* _validators.properties_draft4
v_properties(properties, inst, root, path) ==
    IF inst.k # "dict" THEN <<>>
    ELSE LET keys == IterKeys(properties)
         IN Flatten([i \in 1..Len(keys) |->
                IF HasKey(inst, keys[i])
                THEN iter_errors(Get(inst, keys[i]), Get(properties, keys[i]), root, path \o <<Str(keys[i])>>)
                ELSE <<>>])

\* _utils.find_additional_properties (no patternProperties are in use)
Extras(inst, sch) ==
    LET declared == IF HasKey(sch, "properties") THEN DOMAIN Get(sch, "properties").v ELSE {}
        keys == IterKeys(inst)
        extra(key) == key \notin declared
    IN SelectSeq(keys, extra)

\* _validators.additionalProperties
v_additionalProperties(aP, inst, sch, root, path) ==
    IF inst.k # "dict" THEN <<>>
    ELSE LET extras == Extras(inst, sch)
         IN IF aP.k = "dict"
            THEN Flatten([i \in 1..Len(extras) |->
                     iter_errors(Get(inst, extras[i]), aP, root, path \o <<Str(extras[i])>>)])
            ELSE IF ~aP.v /\ Len(extras) > 0
            THEN <<ValidationError(Chars("Additional properties are not allowed (")
                                     \o JoinWith(Chars(", "), [i \in 1..Len(extras) |-> StrRepr(Chars(extras[i]))])
                                     \o (IF Len(extras) = 1 THEN Chars(" was") ELSE Chars(" were"))
                                     \o Chars(" unexpected)"),
                                   inst, sch, path)>>
            ELSE <<>>

\* _validators.required_draft4
v_required(required, inst, sch, path) ==
    IF inst.k # "dict" THEN <<>>
    ELSE Flatten([i \in 1..Len(required.v) |->
            IF HasKey(inst, required.v[i].v) THEN <<>>
            ELSE <<ValidationError(Repr(required.v[i]) \o Chars(" is a required property"), inst, sch, path)>>])

\* _validators.items (a single schema for every item)
v_items(items, inst, root, path) ==
    IF inst.k # "list" THEN <<>>
    ELSE Flatten([i \in 1..Len(inst.v) |-> iter_errors(inst.v[i], items, root, path \o <<Integer(i - 1)>>)])

\* _validators.minimum
v_minimum(minimum, inst, sch, path) ==
    IF inst.k \in {"int", "float"} /\ NumVal(inst) < NumVal(minimum)
    THEN <<ValidationError(Repr(inst) \o Chars(" is less than the minimum of ") \o Repr(minimum), inst, sch, path)>>
    ELSE <<>>

\* _validators.maximum
v_maximum(maximum, inst, sch, path) ==
    IF inst.k \in {"int", "float"} /\ NumVal(inst) > NumVal(maximum)
    THEN <<ValidationError(Repr(inst) \o Chars(" is greater than the maximum of ") \o Repr(maximum), inst, sch, path)>>
    ELSE <<>>

\* _validators.pattern
v_pattern(patrn, inst, sch, path) ==
    IF inst.k = "str" /\ ~re_search(patrn.v, inst)
    THEN <<ValidationError(Repr(inst) \o Chars(" does not match ") \o Repr(patrn), inst, sch, path)>>
    ELSE <<>>

\* _validators.format
v_format(fmt, inst, sch, path) ==
    IF ConformsTo(inst, fmt.v) THEN <<>>
    ELSE <<ValidationError(Repr(inst) \o Chars(" is not a ") \o Repr(fmt), inst, sch, path)>>

\* _validators.enum
v_enum(enums, inst, sch, path) ==
    IF \E i \in 1..Len(enums.v) : PyEq(inst, enums.v[i]) THEN <<>>
    ELSE <<ValidationError(Repr(inst) \o Chars(" is not one of ") \o Repr(enums), inst, sch, path)>>

NotUnderAny(inst, sch, path) ==
    ValidationError(Repr(inst) \o Chars(" is not valid under any of the given schemas"), inst, sch, path)

\* _validators.anyOf_draft4
v_anyOf(anyOf, inst, sch, root, path) ==
    LET subs == anyOf.v
        fv == FirstValid(inst, subs, root, path, 1)
        tried == IF fv = 0 THEN Len(subs) ELSE fv
    IN IF \E i \in 1..tried : Raises(iter_errors(inst, subs[i], root, path)) THEN <<RefResolutionError>>
       ELSE IF fv = 0 THEN <<NotUnderAny(inst, sch, path)>>
       ELSE <<>>

\* _validators.oneOf_draft4
v_oneOf(oneOf, inst, sch, root, path) ==
    LET subs == oneOf.v
        fv == FirstValid(inst, subs, root, path, 1)
        tried == IF fv = 0 THEN Len(subs) ELSE fv
        first(i) == iter_errors(inst, subs[i], root, path)
        more(i) == Len(first(i)) = 0
        later == fv + 1 .. Len(subs)
        more_valid == SelectSeq([i \in 1..Len(subs) |-> i], LAMBDA i : i > fv /\ more(i)) \o <<fv>>
    IN IF \E i \in 1..tried : Raises(first(i)) THEN <<RefResolutionError>>
       ELSE IF fv = 0 THEN <<NotUnderAny(inst, sch, path)>>
       ELSE IF \E i \in later : Len(first(i)) > 0 /\ first(i)[1].kind = "RefResolutionError"
       THEN <<RefResolutionError>>
       ELSE IF Len(more_valid) > 1
       THEN <<ValidationError(Repr(inst) \o Chars(" is valid under each of ")
                                \o JoinWith(Chars(", "), [i \in 1..Len(more_valid) |-> Repr(subs[more_valid[i]])]),
                              inst, sch, path)>>
       ELSE <<>>

\* the validator function of keyword key applied to the instance
Keyword(key, inst, sch, root, path) ==
    LET val == Get(sch, key)
    IN CASE key = "type" -> v_type(val, inst, sch, path)
         [] key = "properties" -> v_properties(val, inst, root, path)
         [] key = "additionalProperties" -> v_additionalProperties(val, inst, sch, root, path)
         [] key = "required" -> v_required(val, inst, sch, path)
         [] key = "items" -> v_items(val, inst, root, path)
         [] key = "minimum" -> v_minimum(val, inst, sch, path)
         [] key = "maximum" -> v_maximum(val, inst, sch, path)
         [] key = "pattern" -> v_pattern(val, inst, sch, path)
         [] key = "format" -> v_format(val, inst, sch, path)
         [] key = "enum" -> v_enum(val, inst, sch, path)
         [] key = "anyOf" -> v_anyOf(val, inst, sch, root, path)
         [] key = "oneOf" -> v_oneOf(val, inst, sch, root, path)
         [] OTHER -> <<>>

\* Draft4Validator.iter_errors: a "$ref" stands for the whole schema,
\* otherwise every keyword of the schema in the dict's order
iter_errors(inst, sch, root, path) ==
    IF HasKey(sch, "$ref") THEN v_ref(Get(sch, "$ref"), inst, root, path)
    ELSE LET keys == IterKeys(sch)
         IN Flatten([i \in 1..Len(keys) |-> Keyword(keys[i], inst, sch, root, path)])

-----------------------------------------------------------------------------
\* Draft4Validator.check_schema: the composed schema against the draft-4
\* meta-schema.  Keywords the meta-schema does not declare ("pScheduler",
\* "local", "x-invalid-message", "$ref") are not constrained.

IsStr(x) == x.k = "str"
IsNum(x) == x.k \in {"int", "float"}

Unique(xs) == \A i, j \in 1..Len(xs.v) : i # j => ~PyEq(xs.v[i], xs.v[j])

RECURSIVE MetaValid(_)
MetaValid(sch) ==
    /\ sch.k = "dict"
    /\ HasKey(sch, "type") =>
         LET t == Get(sch, "type")
         IN \/ IsStr(t) /\ t.v \in SimpleTypes
            \/ /\ t.k = "list"
               /\ Len(t.v) >= 1
               /\ \A i \in 1..Len(t.v) : IsStr(t.v[i]) /\ t.v[i].v \in SimpleTypes
               /\ Unique(t)
    /\ HasKey(sch, "properties") =>
         LET p == Get(sch, "properties")
         IN p.k = "dict" /\ \A key \in DOMAIN p.v : MetaValid(p.v[key])
    /\ HasKey(sch, "items") =>
         LET it == Get(sch, "items")
         IN \/ MetaValid(it)
            \/ it.k = "list" /\ Len(it.v) >= 1 /\ \A i \in 1..Len(it.v) : MetaValid(it.v[i])
    /\ HasKey(sch, "additionalProperties") =>
         LET aP == Get(sch, "additionalProperties")
         IN aP.k = "bool" \/ MetaValid(aP)
    /\ HasKey(sch, "required") =>
         LET r == Get(sch, "required")
         IN r.k = "list" /\ Len(r.v) >= 1 /\ (\A i \in 1..Len(r.v) : IsStr(r.v[i])) /\ Unique(r)
    /\ HasKey(sch, "minimum") => IsNum(Get(sch, "minimum"))
    /\ HasKey(sch, "maximum") => IsNum(Get(sch, "maximum"))
    /\ HasKey(sch, "pattern") => IsStr(Get(sch, "pattern"))
    /\ HasKey(sch, "format") => IsStr(Get(sch, "format"))
    /\ HasKey(sch, "enum") =>
         LET e == Get(sch, "enum") IN e.k = "list" /\ Len(e.v) >= 1 /\ Unique(e)
    /\ \A key \in {"oneOf", "anyOf"} : HasKey(sch, key) =>
         LET subs == Get(sch, key)
         IN subs.k = "list" /\ Len(subs.v) >= 1 /\ \A i \in 1..Len(subs.v) : MetaValid(subs.v[i])
    /\ \A key \in {"$schema", "id", "title"} : HasKey(sch, key) => IsStr(Get(sch, key))

-----------------------------------------------------------------------------
\* json_validate(json, skeleton)

NoOutcome == [kind |-> "none", valid |-> FALSE, message |-> <<>>, exc |-> "none"]
Return(valid, message) == [kind |-> "return", valid |-> valid, message |-> message, exc |-> "none"]
Raise(exc) == [kind |-> "raise", valid |-> FALSE, message |-> <<>>, exc |-> exc]

NoError == [kind |-> "none", message |-> <<>>, instance |-> None, schema |-> None, absolute_path |-> <<>>]

validateLast(instance, sch) ==
    LET events == iter_errors(instance, sch, sch, <<>>)
    IN IF Len(events) = 0 THEN NoError ELSE events[Len(events)]

\* jsonschema.validate(instance, schema, format_checker=FormatChecker()):
\* what it raises, which is the first thing the iteration yields, or NoError
validate(instance, sch) ==
    LET events == iter_errors(instance, sch, sch, <<>>)
    IN IF Len(events) = 0 THEN NoError ELSE events[1]

NotADictNorList(x) == x.k \notin {"dict", "list"}

\* type(x) != dict
NotADict(x) == x.k # "dict"

NoCopy(c) == 0

\* The object the local name schema is bound to by schema = copy.copy(...):
\* a new object, private to the call (object 0 is __default_schema__).
copy_copy(c) == c

ElementsWithoutRequired == <<"type", "items", "properties", "additionalProperties", "local">>

\* The keys the loop takes from the skeleton, in the loop's order
Elements == <<"type", "items", "properties", "additionalProperties", "required", "local">>

StoreIfAbsent(sch, skel, el) ==
    IF HasKey(skel, el) /\ ~HasKey(sch, el) THEN SetItem(sch, el, Get(skel, el)) ELSE sch

\* The loop body for one element, on the dict the name schema is bound to
StoreElement(sch, skel, el) == IF HasKey(skel, el) THEN SetItem(sch, el, Get(skel, el)) ELSE sch

\* str(x) of a path entry
PathStr(x) == IF x.k = "int" THEN IntChars(x.v) ELSE Chars(x.v)

\* ex.schema["x-invalid-message"].replace("%s", ex.instance), or ex.message on
\* KeyError; str.replace raises TypeError when handed a non-string
Message(e) ==
    IF HasKey(e.schema, "x-invalid-message")
    THEN IF e.instance.k = "str"
         THEN Return(FALSE, Replace(Chars(Get(e.schema, "x-invalid-message").v), Chars("%s"), Chars(e.instance.v)))
         ELSE Raise("TypeError")
    ELSE Return(FALSE, e.message)

LocatedAlways(path, message) ==
    Return(FALSE, Chars("At /") \o JoinWith(Chars("/"), [i \in 1..Len(path) |-> PathStr(path[i])])
                    \o Chars(": ") \o message)

\* the tuple returned from the except clause for the given path and message
Located(path, message) ==
    IF Len(path) > 0
    THEN Return(FALSE, Chars("At /") \o JoinWith(Chars("/"), [i \in 1..Len(path) |-> PathStr(path[i])])
                         \o Chars(": ") \o message)
    ELSE Return(FALSE, message)

\* the except clause as a whole
Handle(e) ==
    LET m == Message(e)
    IN IF m.kind = "raise" THEN m ELSE Located(e.absolute_path, m.message)

Call(c, j, s) ==
    /\ pc[c] = "idle"
    /\ pc' = [pc EXCEPT ![c] = "check_json"]
    /\ json' = [json EXCEPT ![c] = j]
    /\ skeleton' = [skeleton EXCEPT ![c] = s]
    /\ UNCHANGED <<hashOrder, heap, schema, element, ex, outcome>>

CheckJson(c) ==
    /\ pc[c] = "check_json"
    /\ IF NotADict(json[c])
       THEN /\ outcome' = [outcome EXCEPT ![c] = Raise("ValueError")]
            /\ pc' = [pc EXCEPT ![c] = "done"]
       ELSE /\ pc' = [pc EXCEPT ![c] = "check_skeleton"]
            /\ UNCHANGED outcome
    /\ UNCHANGED <<hashOrder, heap, json, skeleton, schema, element, ex>>

CheckSkeleton(c) ==
    /\ pc[c] = "check_skeleton"
    /\ IF NotADict(skeleton[c])
       THEN /\ outcome' = [outcome EXCEPT ![c] = Raise("ValueError")]
            /\ pc' = [pc EXCEPT ![c] = "done"]
       ELSE /\ pc' = [pc EXCEPT ![c] = "copy"]
            /\ UNCHANGED outcome
    /\ UNCHANGED <<hashOrder, heap, json, skeleton, schema, element, ex>>

Copy(c) ==
    /\ pc[c] = "copy"
    /\ schema' = [schema EXCEPT ![c] = copy_copy(c)]
    /\ heap' = [heap EXCEPT ![copy_copy(c)] = heap[0]]
    /\ element' = [element EXCEPT ![c] = 1]
    /\ pc' = [pc EXCEPT ![c] = "merge"]
    /\ UNCHANGED <<hashOrder, json, skeleton, ex, outcome>>

Merge(c) ==
    /\ pc[c] = "merge"
    /\ heap' = [heap EXCEPT ![schema[c]] = StoreElement(@, skeleton[c], Elements[element[c]])]
    /\ IF element[c] < Len(Elements)
       THEN /\ element' = [element EXCEPT ![c] = @ + 1]
            /\ UNCHANGED pc
       ELSE /\ pc' = [pc EXCEPT ![c] = "check_schema"]
            /\ UNCHANGED element
    /\ UNCHANGED <<hashOrder, json, skeleton, schema, ex, outcome>>

CheckSchema(c) ==
    /\ pc[c] = "check_schema"
    /\ IF MetaValid(heap[schema[c]])
       THEN /\ pc' = [pc EXCEPT ![c] = "validate"]
            /\ UNCHANGED outcome
       ELSE /\ outcome' = [outcome EXCEPT ![c] = Raise("SchemaError")]
            /\ pc' = [pc EXCEPT ![c] = "done"]
    /\ UNCHANGED <<hashOrder, heap, json, skeleton, schema, element, ex>>

Validate(c) ==
    /\ pc[c] = "validate"
    /\ ex' = [ex EXCEPT ![c] = IF validate(json[c], heap[schema[c]]).kind = "ValidationError"
                               THEN validate(json[c], heap[schema[c]]) ELSE @]
    /\ outcome' = [outcome EXCEPT ![c] =
                     CASE validate(json[c], heap[schema[c]]).kind = "none" -> Return(TRUE, Chars("OK"))
                       [] validate(json[c], heap[schema[c]]).kind = "RefResolutionError" -> Raise("RefResolutionError")
                       [] OTHER -> @]
    /\ pc' = [pc EXCEPT ![c] = IF validate(json[c], heap[schema[c]]).kind = "ValidationError"
                               THEN "except" ELSE "done"]
    /\ UNCHANGED <<hashOrder, heap, json, skeleton, schema, element>>

Except(c) ==
    /\ pc[c] = "except"
    /\ outcome' = [outcome EXCEPT ![c] = Handle(ex[c])]
    /\ pc' = [pc EXCEPT ![c] = "done"]
    /\ UNCHANGED <<hashOrder, heap, json, skeleton, schema, element, ex>>

\* The call is over: its locals are gone, and so is the object only they
\* referred to.
Finish(c) ==
    /\ pc[c] = "done"
    /\ pc' = [pc EXCEPT ![c] = "idle"]
    /\ json' = [json EXCEPT ![c] = None]
    /\ skeleton' = [skeleton EXCEPT ![c] = None]
    /\ heap' = [x \in DOMAIN heap |-> IF x = schema[c] /\ x # 0 THEN None ELSE heap[x]]
    /\ schema' = [schema EXCEPT ![c] = -1]
    /\ element' = [element EXCEPT ![c] = 0]
    /\ ex' = [ex EXCEPT ![c] = NoError]
    /\ outcome' = [outcome EXCEPT ![c] = NoOutcome]
    /\ UNCHANGED hashOrder

RECURSIVE MergeFrom(_, _, _)
\* the whole for loop, from its i-th element on
MergeFrom(sch, skel, i) ==
    IF i > Len(Elements) THEN sch
    ELSE MergeFrom(StoreElement(sch, skel, Elements[i]), skel, i + 1)

\* The outcome of one call that runs from entry to exit with nothing in between
json_validate(j, s) ==
    IF NotADict(j) \/ NotADict(s) THEN Raise("ValueError")
    ELSE LET sch == MergeFrom(default_schema, s, 1)
         IN IF ~MetaValid(sch) THEN Raise("SchemaError")
            ELSE CASE validate(j, sch).kind = "none" -> Return(TRUE, Chars("OK"))
                   [] validate(j, sch).kind = "RefResolutionError" -> Raise("RefResolutionError")
                   [] OTHER -> Handle(validate(j, sch))

-----------------------------------------------------------------------------
\* Arguments of the calls

Props(p) == Dict("type" :> Str("object") @@ "properties" :> Dict(p))

\* the schema of the module's test program, cut to three of its fields
SampleSchema ==
    Dict("type" :> Str("object")
      @@ "properties" :> Dict("howlong" :> TypeRef("#/pScheduler/Duration")
                           @@ "sendto" :> TypeRef("#/pScheduler/Email")
                           @@ "x-factor" :> Dict("type" :> Str("number")))
      @@ "required" :> List(<<Str("sendto"), Str("x-factor")>>))

LocalSchema ==
    Dict("local" :> Dict("protocol" :> Dict("type" :> Str("string")
                                          @@ "enum" :> List(<<Str("icmp"), Str("udp"), Str("tcp")>>))
                      @@ "twice" :> Dict("type" :> Str("string")
                                       @@ "pattern" :> Str(SINumberPattern)
                                       @@ "x-invalid-message" :> Str("%s: bad magnitude %s")))
      @@ "properties" :> Dict("v" :> TypeRef("#/local/protocol") @@ "x" :> TypeRef("#/local/twice")))

NestedSchema ==
    Props("a" :> Props("b" :> Dict("type" :> Str("array") @@ "items" :> TypeRef("#/pScheduler/Cardinal"))))

Skeletons ==
    <<SampleSchema,
      Props("r" :> TypeRef("#/pScheduler/CardinalRange")),
      Props("r" :> TypeRef("#/pScheduler/CardinalZeroRange")),
      Props("r" :> TypeRef("#/pScheduler/DurationRange")),
      Props("r" :> TypeRef("#/pScheduler/IPPortRange")),
      Props("r" :> TypeRef("#/pScheduler/NumericRange")),
      Props("r" :> TypeRef("#/pScheduler/ProbabilityRange")),
      Props("r" :> TypeRef("#/pScheduler/SINumberRange")),
      Props("v" :> TypeRef("#/pScheduler/AnyJSON")),
      Props("v" :> TypeRef("#/pScheduler/SINumber")),
      Props("v" :> TypeRef("#/pScheduler/Numeric") @@ "howlong" :> TypeRef("#/pScheduler/Duration")),
      NestedSchema,
      LocalSchema,
      EmptyDict,
      Dict("additionalProperties" :> Bool(TRUE) @@ "required" :> List(<<Str("x")>>)),
      Dict("type" :> Str("array") @@ "items" :> TypeRef("#/pScheduler/Cardinal")),
      Dict("minProperties" :> Integer(1)),
      Dict("properties" :> Dict("v" :> Dict("type" :> Str("integer"))) @@ "minProperties" :> Integer(2)),
      Dict("type" :> Str("record")),
      Dict("required" :> List(<<>>)),
      Props("v" :> TypeRef("#/pScheduler/NoSuchType")),
      Props("v" :> TypeRef("#/local/missing")),
      Dict("pScheduler" :> Dict("Cardinal" :> Dict("type" :> Str("string")))
           @@ "properties" :> Dict("v" :> TypeRef("#/pScheduler/Cardinal"))),
      Props("r" :> Dict("type" :> Str("array") @@ "items" :> TypeRef("#/pScheduler/DurationRange"))),
      List(<<Str("object")>>),
      None>>

Range(lo, hi) == Dict("lower" :> lo @@ "upper" :> hi)

Sample(howlong) ==
    Dict("sendto" :> Str("bob@example.com") @@ "x-factor" :> Float(314) @@ "howlong" :> howlong)

Instances ==
    <<Sample(Str("PT10Mxx")),
      Sample(Str("PT10M")),
      Sample(Integer(5)),
      Dict("x-factor" :> Float(314) @@ "howlong" :> Str("PT10Mxx")),
      Dict("sendto" :> Str("bob") @@ "x-factor" :> Float(314)),
      EmptyDict,
      Dict("x" :> Integer(1)),
      Dict("x" :> Str("10 Mi")),
      Dict("r" :> Range(Integer(1), Integer(5))),
      Dict("r" :> Range(Integer(0), Integer(5))),
      Dict("r" :> Range(Integer(5), Integer(1))),
      Dict("r" :> Range(Integer(1), Integer(70000))),
      Dict("r" :> Range(Integer(-1), Integer(5))),
      Dict("r" :> Range(Float(50), Float(100))),
      Dict("r" :> Range(Float(50), Float(150))),
      Dict("r" :> Range(Str("PT1M"), Str("P1DT12H"))),
      Dict("r" :> Range(Str("PT1M"), Str("PT10Mxx"))),
      Dict("r" :> Range(Integer(5), Str("PT1M"))),
      Dict("r" :> Range(Str("10M"), Str("5Gi"))),
      Dict("r" :> Range(Str("10M"), Integer(5))),
      Dict("r" :> Dict("lower" :> Integer(1))),
      Dict("r" :> Dict("lower" :> Integer(1) @@ "upper" :> Integer(5) @@ "x" :> Integer(1))),
      Dict("r" :> Dict("lower" :> Integer(5) @@ "upper" :> Str("PT1M") @@ "x" :> Integer(1))),
      Dict("r" :> Integer(5)),
      Dict("v" :> Integer(5)),
      Dict("v" :> Float(50)),
      Dict("v" :> Str("10M")),
      Dict("v" :> Str("tcp")),
      Dict("v" :> Bool(TRUE)),
      Dict("v" :> None),
      Dict("v" :> Integer(5) @@ "x" :> Integer(1)),
      Dict("v" :> Str("tcp") @@ "x" :> Str("PT10Mxx")),
      Dict("howlong" :> Integer(5) @@ "x" :> Integer(1)),
      Dict("howlong" :> Integer(5) @@ "v" :> Bool(TRUE)),
      Dict("a" :> Dict("b" :> List(<<Integer(1), Integer(2), Integer(0)>>))),
      Dict("a" :> Dict("b" :> List(<<Integer(1), Integer(2), Integer(3)>>))),
      Dict("a" :> Dict("b" :> Integer(5))),
      Dict("a" :> Dict("b" :> List(<<Integer(1), Integer(0), Str("10M")>>))),
      Dict("sendto" :> Str("bob") @@ "x-factor" :> Float(314) @@ "howlong" :> Str("PT10Mxx")),
      Dict("sendto" :> Str("bob") @@ "x-factor" :> Str("pi") @@ "howlong" :> Str("PT10M")),
      Dict("a" :> Dict("b" :> List(<<Integer(0), Str("10M")>>) @@ "x" :> Integer(1))),
      Dict("r" :> List(<<Range(Integer(5), Str("PT1M")),
                         Dict("lower" :> Str("PT1M") @@ "upper" :> Str("PT2M") @@ "x" :> Integer(1))>>)),
      Dict("r" :> List(<<Range(Str("PT1M"), Str("PT2M")),
                         Dict("lower" :> Str("PT1M") @@ "upper" :> Str("PT2M") @@ "x" :> Integer(1))>>)),
      List(<<Integer(1)>>),
      Str("PT10M"),
      None>>

\* The calls that may overlap
Concurrent ==
    <<<<Dict("x" :> Integer(1)), EmptyDict>>,
      <<Dict("x" :> Integer(1)), Dict("additionalProperties" :> Bool(TRUE) @@ "required" :> List(<<Str("x")>>))>>,
      <<Dict("v" :> Integer(5)), Dict("type" :> Str("record"))>>,
      <<Sample(Str("PT10Mxx")), SampleSchema>>>>

-----------------------------------------------------------------------------

Init ==
    /\ hashOrder \in {"fwd", "rev"}
    /\ heap = [x \in 0..NCalls |-> IF x = 0 THEN default_schema ELSE None]
    /\ pc = [c \in Calls |-> "idle"]
    /\ json = [c \in Calls |-> None]
    /\ skeleton = [c \in Calls |-> None]
    /\ schema = [c \in Calls |-> -1]
    /\ element = [c \in Calls |-> 0]
    /\ ex = [c \in Calls |-> NoError]
    /\ outcome = [c \in Calls |-> NoOutcome]

Step(c) ==
    \/ CheckJson(c)
    \/ CheckSkeleton(c)
    \/ Copy(c)
    \/ Merge(c)
    \/ CheckSchema(c)
    \/ Validate(c)
    \/ Except(c)
    \/ Finish(c)

\* One call after another, with any arguments
Next ==
    \/ \E i \in DOMAIN Instances, s \in DOMAIN Skeletons : Call(1, Instances[i], Skeletons[s])
    \/ Step(1)

Spec == Init /\ [][Next]_vars

\* Calls in any interleaving
NextConc ==
    \E c \in Calls :
        \/ \E a \in DOMAIN Concurrent : Call(c, Concurrent[a][1], Concurrent[a][2])
        \/ Step(c)

SpecConc == Init /\ [][NextConc]_vars

-----------------------------------------------------------------------------
\* Notions the properties are stated in: what draft 4 means by an instance
\* satisfying a schema, and the schema a skeleton stands for.

Recognized == {"type", "items", "properties", "additionalProperties", "required", "local"}

\* the envelope with each recognized key of the skeleton in place of the envelope's
Composed(s) ==
    Dict([key \in DOMAIN default_schema.v \cup (DOMAIN s.v \cap Recognized) |->
            IF key \in DOMAIN s.v \cap Recognized THEN s.v[key] ELSE default_schema.v[key]])

Resolved(sch, root) ==
    IF HasKey(sch, "$ref") THEN resolve_fragment(root, PointerParts(Get(sch, "$ref").v)) ELSE sch

RECURSIVE Satisfies(_, _, _)
Satisfies(inst, sch, root) ==
    IF HasKey(sch, "$ref")
    THEN ~Unresolvable(Resolved(sch, root)) /\ Satisfies(inst, Resolved(sch, root), root)
    ELSE
      /\ HasKey(sch, "type") =>
           IF Get(sch, "type").k = "list"
           THEN \E i \in 1..Len(Get(sch, "type").v) : IsType(inst, Get(sch, "type").v[i].v)
           ELSE IsType(inst, Get(sch, "type").v)
      /\ (HasKey(sch, "properties") /\ inst.k = "dict") =>
           \A key \in DOMAIN Get(sch, "properties").v \cap DOMAIN inst.v :
               Satisfies(inst.v[key], Get(sch, "properties").v[key], root)
      /\ (HasKey(sch, "additionalProperties") /\ inst.k = "dict") =>
           LET declared == IF HasKey(sch, "properties") THEN DOMAIN Get(sch, "properties").v ELSE {}
               aP == Get(sch, "additionalProperties")
           IN \A key \in DOMAIN inst.v \ declared :
                  IF aP.k = "dict" THEN Satisfies(inst.v[key], aP, root) ELSE aP.v
      /\ (HasKey(sch, "required") /\ inst.k = "dict") =>
           \A i \in 1..Len(Get(sch, "required").v) : Get(sch, "required").v[i].v \in DOMAIN inst.v
      /\ (HasKey(sch, "items") /\ inst.k = "list") =>
           \A i \in 1..Len(inst.v) : Satisfies(inst.v[i], Get(sch, "items"), root)
      /\ (HasKey(sch, "minimum") /\ inst.k \in {"int", "float"}) => NumVal(inst) >= NumVal(Get(sch, "minimum"))
      /\ (HasKey(sch, "maximum") /\ inst.k \in {"int", "float"}) => NumVal(inst) <= NumVal(Get(sch, "maximum"))
      /\ (HasKey(sch, "pattern") /\ inst.k = "str") => re_search(Get(sch, "pattern").v, inst)
      /\ HasKey(sch, "format") => ConformsTo(inst, Get(sch, "format").v)
      /\ HasKey(sch, "enum") => \E i \in 1..Len(Get(sch, "enum").v) : PyEq(inst, Get(sch, "enum").v[i])
      /\ HasKey(sch, "anyOf") => \E i \in 1..Len(Get(sch, "anyOf").v) : Satisfies(inst, Get(sch, "anyOf").v[i], root)
      /\ HasKey(sch, "oneOf") =>
           Cardinality({i \in 1..Len(Get(sch, "oneOf").v) : Satisfies(inst, Get(sch, "oneOf").v[i], root)}) = 1

RECURSIVE RefsResolve(_, _)
\* every "$ref" anywhere in x names something root holds
RefsResolve(x, root) ==
    CASE x.k = "dict" ->
           /\ (HasKey(x, "$ref") /\ Get(x, "$ref").k = "str") => ~Unresolvable(Resolved(x, root))
           /\ \A key \in DOMAIN x.v : RefsResolve(x.v[key], root)
      [] x.k = "list" -> \A i \in 1..Len(x.v) : RefsResolve(x.v[i], root)
      [] OTHER -> TRUE

\* a record of recognized keys only, a valid draft-4 schema, every reference resolvable
WellFormedSkeleton(s) ==
    /\ s.k = "dict"
    /\ DOMAIN s.v \subseteq Recognized
    /\ MetaValid(Composed(s))
    /\ RefsResolve(s, Composed(s))

Finished(c) == pc[c] = "done"

Rejected(c) == outcome[c].kind = "return" /\ ~outcome[c].valid

Accepted(c) == outcome[c] = Return(TRUE, Chars("OK"))

RECURSIVE PathText(_)
\* "/a/b/2" for the path a, b, 2
PathText(path) ==
    IF Len(path) = 0 THEN <<>>
    ELSE <<"/">> \o (IF path[1].k = "int" THEN IntChars(path[1].v) ELSE Chars(path[1].v)) \o PathText(Tail(path))

Prefix(path) == IF Len(path) = 0 THEN <<>> ELSE Chars("At ") \o PathText(path) \o Chars(": ")

RECURSIVE ValueAt(_, _)
\* the part of x the path leads to
ValueAt(x, path) ==
    IF Len(path) = 0 THEN x
    ELSE IF path[1].k = "int" THEN ValueAt(x.v[path[1].v + 1], Tail(path))
    ELSE ValueAt(x.v[path[1].v], Tail(path))

-----------------------------------------------------------------------------
\* C1: with a skeleton that is a record of recognized keys, a valid draft-4
\* schema and free of unresolvable references, and any record instance,
\* json_validate returns a pair and never raises; an instance that does not
\* satisfy the composed schema is reported as (False, message).
C1_NeverRaises ==
    \A c \in Calls :
        (Finished(c) /\ json[c].k = "dict" /\ WellFormedSkeleton(skeleton[c])) =>
            /\ outcome[c].kind = "return"
            /\ ~Satisfies(json[c], Composed(skeleton[c]), Composed(skeleton[c])) => Rejected(c)

\* C2: a skeleton with a top-level key other than the six recognized ones
\* makes json_validate raise; it returns no result.
C2_UnrecognizedKeyRaises ==
    \A c \in Calls :
        (Finished(c) /\ json[c].k = "dict" /\ skeleton[c].k = "dict"
           /\ ~(DOMAIN skeleton[c].v \subseteq Recognized)) =>
            outcome[c].kind = "raise"

\* C3: when the instance or the skeleton is not a dict the call raises
\* ValueError, whatever the other argument is, and it never gets as far as
\* binding schema to a composed schema.
C3_NonRecordRaises ==
    \A c \in Calls :
        (pc[c] # "idle" /\ (json[c].k # "dict" \/ skeleton[c].k # "dict")) =>
            /\ pc[c] \in {"check_json", "check_skeleton", "done"}
            /\ schema[c] = -1
            /\ heap[c].k = "null"
            /\ Finished(c) => outcome[c] = Raise("ValueError")

C3_Witness ==
    \E c \in Calls :
        /\ Finished(c)
        /\ json[c].k = "list"
        /\ skeleton[c].k = "dict"
        /\ HasKey(skeleton[c], "properties")
        /\ outcome[c] = Raise("ValueError")

\* C4: for record arguments the result is (True, "OK") exactly when the
\* instance satisfies the composed schema, and a result whose first part is
\* True always has "OK" as its second.
C4_ValidIffSatisfies ==
    \A c \in Calls :
        (Finished(c) /\ json[c].k = "dict" /\ skeleton[c].k = "dict") =>
            /\ Accepted(c) <=>
                 /\ MetaValid(Composed(skeleton[c]))
                 /\ Satisfies(json[c], Composed(skeleton[c]), Composed(skeleton[c]))
            /\ (outcome[c].kind = "return" /\ outcome[c].valid) => Accepted(c)

C4_Witness ==
    \E c \in Calls :
        /\ Finished(c)
        /\ Accepted(c)
        /\ json[c].k = "dict"
        /\ HasKey(json[c], "howlong")
        /\ HasKey(skeleton[c], "required")

\* the offending value as text: a string as it is, anything else as repr gives it
TextOf(x) == IF x.k = "str" THEN Chars(x.v) ELSE Repr(x)

\* C5: when the schema that rejected the value has an "x-invalid-message",
\* the message reported is that template with every %s replaced by the text
\* of the offending value, whatever that value is; without a template it is
\* the validator's own message.  Either way it goes after the path prefix.
C5_TemplateForEveryValue ==
    \A c \in Calls :
        (Finished(c) /\ ex[c].kind = "ValidationError") =>
            /\ Rejected(c)
            /\ outcome[c].message =
                 Prefix(ex[c].absolute_path)
                   \o (IF HasKey(ex[c].schema, "x-invalid-message")
                       THEN Replace(Chars(Get(ex[c].schema, "x-invalid-message").v), Chars("%s"), TextOf(ex[c].instance))
                       ELSE ex[c].message)

\* C6: a reported failure's message starts with "At /<path>: ", the path
\* being the field names and indices from the top down joined by "/",
\* exactly when the path is not empty; with an empty path the message
\* stands alone.  The path leads to the offending value.
C6_PathPrefix ==
    \A c \in Calls :
        (Finished(c) /\ Rejected(c)) =>
            /\ ex[c].kind = "ValidationError"
            /\ outcome[c].message =
                 (IF Len(ex[c].absolute_path) > 0
                  THEN Chars("At ") \o PathText(ex[c].absolute_path) \o Chars(": ")
                  ELSE <<>>) \o Message(ex[c]).message
            /\ ValueAt(json[c], ex[c].absolute_path).k = ex[c].instance.k
            /\ (Len(ex[c].absolute_path) = 3 /\ ex[c].absolute_path[3].k = "int" /\ ex[c].absolute_path[3].v = 2
                  /\ ex[c].absolute_path[1].v = "a" /\ ex[c].absolute_path[2].v = "b") =>
                 SubSeq(outcome[c].message, 1, 11) = <<"A", "t", " ", "/", "a", "/", "b", "/", "2", ":", " ">>

C6_Witness ==
    \E c \in Calls :
        /\ Finished(c)
        /\ Rejected(c)
        /\ Len(ex[c].absolute_path) = 3
        /\ ex[c].absolute_path[3].k = "int"
        /\ ex[c].absolute_path[3].v = 2
        /\ SubSeq(outcome[c].message, 1, 11) = <<"A", "t", " ", "/", "a", "/", "b", "/", "2", ":", " ">>

\* the call validates a record whose one field v is declared as a union of the dictionary
UnionCall(c) ==
    /\ json[c].k = "dict"
    /\ DOMAIN json[c].v = {"v"}
    /\ WellFormedSkeleton(skeleton[c])
    /\ HasKey(skeleton[c], "properties")
    /\ HasKey(Get(skeleton[c], "properties"), "v")
    /\ HasKey(Get(Get(skeleton[c], "properties"), "v"), "$ref")
    /\ LET u == Resolved(Get(Get(skeleton[c], "properties"), "v"), Composed(skeleton[c]))
       IN HasKey(u, "oneOf") \/ HasKey(u, "anyOf")

Branches(c) ==
    LET u == Resolved(Get(Get(skeleton[c], "properties"), "v"), Composed(skeleton[c]))
    IN IF HasKey(u, "oneOf") THEN Get(u, "oneOf").v ELSE Get(u, "anyOf").v

\* C7: a union type accepts a value that matches at least one branch, also
\* one that matches several, and rejects a value that matches none with one
\* failure reported against the union.
C7_UnionAcceptsAnyMatch ==
    \A c \in Calls :
        (Finished(c) /\ UnionCall(c)) =>
            IF \E i \in 1..Len(Branches(c)) : Satisfies(json[c].v["v"], Branches(c)[i], Composed(skeleton[c]))
            THEN Accepted(c)
            ELSE /\ Rejected(c)
                 /\ Len(ex[c].absolute_path) = 1
                 /\ ex[c].absolute_path[1].v = "v"
                 /\ HasKey(ex[c].schema, "oneOf") \/ HasKey(ex[c].schema, "anyOf")

\* the record rec has a field that sch, which forbids additional properties, does not declare
HasUndeclared(rec, sch) ==
    /\ rec.k = "dict"
    /\ sch.k = "dict"
    /\ HasKey(sch, "additionalProperties")
    /\ Get(sch, "additionalProperties").k = "bool"
    /\ ~Get(sch, "additionalProperties").v
    /\ \E key \in DOMAIN rec.v : ~(HasKey(sch, "properties") /\ HasKey(Get(sch, "properties"), key))

\* C8: a record with a field that is not declared, where additionalProperties
\* is false (the top-level record under the envelope's value, or a field or
\* an array element declared as a dictionary record type), is rejected with
\* (False, message).
C8_UndeclaredFieldRejected ==
    \A c \in Calls :
        (Finished(c) /\ json[c].k = "dict" /\ WellFormedSkeleton(skeleton[c])) =>
            LET root == Composed(skeleton[c])
            IN (\/ HasUndeclared(json[c], root)
                \/ /\ HasKey(root, "properties")
                   /\ \E key \in DOMAIN json[c].v \cap DOMAIN Get(root, "properties").v :
                          LET field == Resolved(Get(root, "properties").v[key], root)
                          IN \/ HasUndeclared(json[c].v[key], field)
                             \/ /\ json[c].v[key].k = "list"
                                /\ field.k = "dict"
                                /\ HasKey(field, "items")
                                /\ \E i \in 1..Len(json[c].v[key].v) :
                                       HasUndeclared(json[c].v[key].v[i], Resolved(Get(field, "items"), root)))
               => Rejected(c)

\* the call validates a record whose one field r is declared as a range type of the dictionary
RangeCall(c) ==
    /\ json[c].k = "dict"
    /\ DOMAIN json[c].v = {"r"}
    /\ WellFormedSkeleton(skeleton[c])
    /\ HasKey(skeleton[c], "properties")
    /\ HasKey(Get(skeleton[c], "properties"), "r")
    /\ LET t == Resolved(Get(Get(skeleton[c], "properties"), "r"), Composed(skeleton[c]))
       IN HasKey(t, "properties") /\ DOMAIN Get(t, "properties").v = {"lower", "upper"}

\* the scalar type a range type is a range of
ScalarOf(c) ==
    Get(Get(Resolved(Get(Get(skeleton[c], "properties"), "r"), Composed(skeleton[c])), "properties"), "lower")

\* C9: a range type accepts {lower, upper} when both bounds satisfy the
\* scalar type, and rejects a record with a bound that violates it, with a
\* bound missing, or with another field.
C9_RangeChecksBounds ==
    \A c \in Calls :
        (Finished(c) /\ RangeCall(c)) =>
            LET rec == json[c].v["r"]
                root == Composed(skeleton[c])
                good == /\ rec.k = "dict"
                        /\ DOMAIN rec.v = {"lower", "upper"}
                        /\ Satisfies(rec.v["lower"], ScalarOf(c), root)
                        /\ Satisfies(rec.v["upper"], ScalarOf(c), root)
            IN IF good THEN Accepted(c) ELSE Rejected(c)

\* C10: the outcome of a call, returned or raised, is the outcome of the
\* same call run alone, whatever other calls run before it or interleaved
\* with it; the schema a call has composed holds the skeleton keys of that
\* call and of no other, and the envelope never holds any.
C10_OutcomeOfArgumentsOnly ==
    /\ \A c \in Calls : Finished(c) => outcome[c] = json_validate(json[c], skeleton[c])
    /\ \A c \in Calls :
           (pc[c] \in {"check_schema", "validate", "except"} \/ (Finished(c) /\ schema[c] # -1)) =>
               \A el \in {"items", "properties", "required", "local"} :
                   HasKey(heap[schema[c]], el) <=> HasKey(skeleton[c], el)
    /\ \A el \in {"items", "properties", "required", "local"} : ~HasKey(heap[0], el)

C10_Witness ==
    \E c, d \in Calls :
        /\ c # d
        /\ Finished(c)
        /\ Rejected(c)
        /\ ~HasKey(skeleton[c], "additionalProperties")
        /\ pc[d] \in {"check_schema", "validate", "except", "done"}
        /\ HasKey(skeleton[d], "additionalProperties")

\* C11: at every point of every sequence of calls, finished or under way,
\* returning or raising, __default_schema__ holds the keys and values it was
\* built with, none of the skeleton's among them, and the dictionary under
\* "pScheduler" is the dictionary as built.
C11_EnvelopeUnchanged ==
    /\ DOMAIN heap[0].v = DOMAIN default_schema.v
    /\ \A el \in Recognized \ {"type", "additionalProperties"} : ~HasKey(heap[0], el)
    /\ Get(heap[0], "type") = Str("object")
    /\ Get(heap[0], "additionalProperties") = Bool(FALSE)
    /\ DOMAIN Get(heap[0], "pScheduler").v = DOMAIN dictionary.v
    /\ heap[0] = default_schema

C11_Witness ==
    \E c, d \in Calls :
        /\ c # d
        /\ Finished(c)
        /\ outcome[c].kind = "return"
        /\ HasKey(skeleton[c], "required")
        /\ HasKey(heap[schema[c]], "required")
        /\ Finished(d)
        /\ outcome[d].kind = "raise"

\* the call has composed its schema
Composing(c) == schema[c] # -1 /\ pc[c] \in {"check_schema", "validate", "except", "done"}

\* C12: the schema a call has composed has the envelope's keys and the
\* recognized keys of the skeleton, and no others; a recognized key of the
\* skeleton has the skeleton's value, every other key the envelope's; under
\* "pScheduler" is the dictionary, also when the skeleton has a "pScheduler"
\* of its own; with an empty skeleton only the empty record is accepted.
C12_EnvelopeWithSixKeys ==
    \A c \in Calls :
        /\ Composing(c) =>
             /\ DOMAIN heap[schema[c]].v = DOMAIN default_schema.v \cup (DOMAIN skeleton[c].v \cap Recognized)
             /\ \A key \in DOMAIN heap[schema[c]].v :
                    IF key \in Recognized /\ HasKey(skeleton[c], key)
                    THEN Get(heap[schema[c]], key) = Get(skeleton[c], key)
                    ELSE Get(heap[schema[c]], key) = Get(default_schema, key)
             /\ Get(heap[schema[c]], "pScheduler") = dictionary
        /\ (Finished(c) /\ json[c].k = "dict" /\ skeleton[c].k = "dict" /\ DOMAIN skeleton[c].v = {}) =>
             (Accepted(c) <=> DOMAIN json[c].v = {})
        /\ (Finished(c) /\ json[c].k = "dict" /\ skeleton[c].k = "dict" /\ HasKey(skeleton[c], "pScheduler")
              /\ DOMAIN json[c].v = {"v"}) =>
             (Accepted(c) <=> Satisfies(json[c].v["v"], Cardinal, default_schema))

C12_Witness ==
    \E c \in Calls :
        /\ Finished(c)
        /\ Accepted(c)
        /\ HasKey(skeleton[c], "pScheduler")
        /\ HasKey(skeleton[c], "properties")
        /\ HasKey(heap[schema[c]], "properties")
        /\ HasKey(json[c], "v")

\* C13: a skeleton with a reference that names neither an entry of the
\* dictionary nor one of its own local definitions makes the call raise,
\* whatever record the instance is, also one without the field the
\* reference stands under.
C13_DanglingReferenceRaises ==
    \A c \in Calls :
        (Finished(c) /\ json[c].k = "dict" /\ skeleton[c].k = "dict"
           /\ ~RefsResolve(skeleton[c], Composed(skeleton[c]))) =>
            outcome[c].kind = "raise"

\* the properties of the test program's schema in the order its literal declares them
Declared == <<"howlong", "sendto", "x-factor">>

\* the call validates a record of exactly the declared fields against a
\* skeleton declaring exactly them, so every violation is a field's
DeclaredCall(c) ==
    /\ json[c].k = "dict"
    /\ skeleton[c].k = "dict"
    /\ HasKey(skeleton[c], "properties")
    /\ DOMAIN Get(skeleton[c], "properties").v = {Declared[i] : i \in 1..Len(Declared)}
    /\ DOMAIN json[c].v = {Declared[i] : i \in 1..Len(Declared)}

\* the value of the field violates what the skeleton declares for it
Violates(c, key) ==
    ~Satisfies(json[c].v[key], Get(skeleton[c], "properties").v[key], Composed(skeleton[c]))

Before(key1, key2) ==
    LET order == IF hashOrder = "fwd" THEN KeyOrder ELSE Reverse(KeyOrder)
    IN \E i, j \in 1..Len(order) : i < j /\ order[i] = key1 /\ order[j] = key2

====
